---- MODULE Spec2Model ----
(***************************************************************************)
(* Automatic Plant Watering System (src/main.c, MSP430G2553).              *)
(*                                                                         *)
(* The program is one thread of control: main() calls plantState() for     *)
(* plant1, plant2, plant3 and then hdelay(48), forever.  The two interrupt *)
(* routines only wake the CPU from the low-power wait inside delay(),      *)
(* msdelay() and checkMoisture(), so those calls are blocking calls that   *)
(* return.  pc is the position of main's thread; a value of pc names the   *)
(* statement that runs next.                                               *)
(*                                                                         *)
(* Registers are sets of bit numbers: reg |= m is reg \cup m and           *)
(* reg &= ~m is reg \ m.                                                   *)
(***************************************************************************)
EXTENDS Integers, Sequences, FiniteSets, TLC

\* ---------------------------------------------------------------- constants
MOISTURE_MIN == 200
MOISTURE_MAX == 600
MAX_TRAVEL == 5
SOAK_TIME == 3

\* Largest value of preWaterPlant's counter the model tells apart.  The
\* counter is an int that the loop of lines 157-163 increments without
\* limit; the code only compares it with MAX_TRAVEL (lines 157, 164), so
\* every value from MaxCounter > MAX_TRAVEL on behaves alike and the model
\* keeps the counter at MaxCounter once it gets there.
MaxCounter == 7

\* Bit masks of <msp430.h>, as sets of bit numbers.
BIT0 == {0}
BIT1 == {1}
BIT2 == {2}
BIT3 == {3}
BIT4 == {4}
BIT5 == {5}
INCH_1 == {12}
INCH_3 == {12, 13}
INCH_5 == {12, 14}
ADC10DIV_7 == {5, 6, 7}
ADC10SHT_1 == {11}
ADC10ON == {4}
ADC10IE == {3}
ENC == {1}

\* The three struct plantProperty objects of main (travelTime, the only
\* field that is assigned after construction, is the variable travelTime).
Plants == 1..3

plant ==
  [p \in Plants |->
     CASE p = 1 -> [enableADC |-> BIT0, selectADC |-> INCH_1,
                    sampleADC |-> BIT1, activateSolenoid |-> BIT0]
       [] p = 2 -> [enableADC |-> BIT2, selectADC |-> INCH_3,
                    sampleADC |-> BIT3, activateSolenoid |-> BIT1]
       [] p = 3 -> [enableADC |-> BIT4, selectADC |-> INCH_5,
                    sampleADC |-> BIT5, activateSolenoid |-> BIT2]]

\* Values the 10-bit converter can deliver that the model draws from: the
\* two ends of the range and both sides of each threshold.
Samples == {0, MOISTURE_MIN - 1, MOISTURE_MIN, MOISTURE_MAX - 1, MOISTURE_MAX, 1023}

\* Number of timer periods delay(seconds) / msdelay(mseconds) waits:
\* for(i = n; i > 0; i--) runs n times for n > 0 and not at all otherwise.
DelayTicks(n) == IF n > 0 THEN n ELSE 0

VARIABLES
  pc,          \* position of main's thread
  cur,         \* which plant main is processing (ptr_plant)
  travelTime,  \* plantN.travelTime
  P1OUT, P2OUT, ADC10CTL0, ADC10CTL1, ADC10AE0, ADC10MEM,
  moisture,    \* plantState's local moisture
  pmoisture,   \* preWaterPlant's local moisture
  counter,     \* preWaterPlant's local counter
  waterTime,   \* waterPlant's local waterTime
  ret,         \* which call of waterPlant is running: "full" (line 206) or "maint" (line 208)
  hi,          \* hdelay's local i
  slept,       \* seconds waited by the running / last hdelay
  lineTicks,   \* seconds waited by waterPlant's delay(waterTime), line 189
  lastDelay,   \* the last delay()/msdelay() call that returned
  wetStep,     \* first value of counter at which preWaterPlant read a sample >= MOISTURE_MAX, -1 if none
  log          \* calls of preWaterPlant / completed waterPlant since plantState was entered

vars == <<pc, cur, travelTime, P1OUT, P2OUT, ADC10CTL0, ADC10CTL1, ADC10AE0,
          ADC10MEM, moisture, pmoisture, counter, waterTime, ret, hi, slept,
          lineTicks, lastDelay, wetStep, log>>

regs == <<P1OUT, P2OUT, ADC10CTL0, ADC10CTL1, ADC10AE0, ADC10MEM>>

Waited(f, n) == [fn |-> f, n |-> DelayTicks(n)]

\* --------------------------------------------------------------------- Init
\* State after disableWatchdog(), initialize() and the three struct
\* definitions of main: outputs low, ADC on, every travelTime 0.
Init ==
  /\ pc = "main"
  /\ cur = 1
  /\ travelTime = [p \in Plants |-> 0]
  /\ P1OUT = {}
  /\ P2OUT = {}
  /\ ADC10CTL0 = ADC10SHT_1 \cup ADC10ON \cup ADC10IE
  /\ ADC10CTL1 = ADC10DIV_7
  /\ ADC10AE0 = {}
  /\ ADC10MEM = 0
  /\ moisture = 0
  /\ pmoisture = 0
  /\ counter = 0
  /\ waterTime = 0
  /\ ret = "maint"
  /\ hi = 0
  /\ slept = 0
  /\ lineTicks = 0
  /\ lastDelay = Waited("none", 0)
  /\ wetStep = -1
  /\ log = <<>>

\* ------------------------------------------------------------ pure helpers
\* plantState line 202: the station is judged dry.
Dry_Inclusive(m) == m <= MOISTURE_MIN
Dry(m) == m < MOISTURE_MIN

\* preWaterPlant line 157: the loop's continuation condition.
Continue_And(m, c) == m < MOISTURE_MAX /\ c < MAX_TRAVEL
Continue(m, c) == m < MOISTURE_MAX \/ c < MAX_TRAVEL

\* preWaterPlant line 164: the test that diverts to the alarm loop.
AlarmTest_Inverted(c) == c < MAX_TRAVEL
AlarmTest(c) == c >= MAX_TRAVEL

\* waterPlant line 185.
WaterTime_NoSoak(t) == t
WaterTime(t) == t + SOAK_TIME

\* P2OUT |= (*ptr_plant).activateSolenoid   (lines 155, 186)
OpenValve_Skip(out, p) == out
OpenValve(out, p) == out \cup plant[p].activateSolenoid
\* P2OUT |= BIT3                            (lines 159, 188)
OpenLine(out) == out \cup BIT3
\* P2OUT &= ~BIT3                           (lines 174, 190)
CloseLine_Skip(out) == out
CloseLine(out) == out \ BIT3
\* P2OUT &= ~(*ptr_plant).activateSolenoid  (lines 176, 192)
CloseValve_Skip(out, p) == out
CloseValve_NoInvert(out, p) == out \cap plant[p].activateSolenoid
CloseValve(out, p) == out \ plant[p].activateSolenoid

\* P1OUT |= (*ptr_plant).enableADC    (line 116)
EnableSensor_WrongField(out, p) == out \cup plant[p].sampleADC
EnableSensor(out, p) == out \cup plant[p].enableADC
\* P1OUT &= ~(*ptr_plant).enableADC   (line 132)
DisableSensor_Skip(out, p) == out
DisableSensor(out, p) == out \ plant[p].enableADC

Entry(o, c, t) == [op |-> o, call |-> c, ticks |-> t]

\* ------------------------------------------------------------------- main
\* main lines 242-244: call plantState(ptr_plantN).
MainCallPlantState ==
  /\ pc = "main"
  /\ pc' = "ps_initADC"
  /\ log' = <<>>
  /\ UNCHANGED <<cur, travelTime, regs, moisture, pmoisture, counter,
                 waterTime, ret, hi, slept, lineTicks, lastDelay, wetStep>>

\* plantState returns to main, and main starts over without hdelay(48).
PlantStateReturn_SkipSleep ==
  /\ pc = "ps_ret"
  /\ cur' = IF cur < 3 THEN cur + 1 ELSE 1
  /\ pc' = "main"
  /\ UNCHANGED <<hi, slept, travelTime, regs, moisture, pmoisture, counter,
                 waterTime, ret, lineTicks, lastDelay, wetStep, log>>

\* plantState returns to main: next plant, or hdelay(48) after plant3.
PlantStateReturn ==
  /\ pc = "ps_ret"
  /\ IF cur < 3
       THEN /\ cur' = cur + 1
            /\ pc' = "main"
            /\ UNCHANGED <<hi, slept>>
       ELSE /\ pc' = "hdelay"
            /\ hi' = 48
            /\ slept' = 0
            /\ UNCHANGED cur
  /\ UNCHANGED <<travelTime, regs, moisture, pmoisture, counter, waterTime,
                 ret, lineTicks, lastDelay, wetStep, log>>

\* hdelay lines 104-107: one pass of the loop, delay(3600).
HDelayHour ==
  /\ pc = "hdelay"
  /\ hi > 0
  /\ slept' = slept + DelayTicks(3600)
  /\ lastDelay' = Waited("delay", 3600)
  /\ hi' = hi - 1
  /\ UNCHANGED <<pc, cur, travelTime, regs, moisture, pmoisture, counter,
                 waterTime, ret, lineTicks, wetStep, log>>

\* hdelay's loop ends; main's while(1) starts over with plant1.
HDelayReturn ==
  /\ pc = "hdelay"
  /\ ~(hi > 0)
  /\ pc' = "main"
  /\ cur' = 1
  /\ UNCHANGED <<travelTime, regs, moisture, pmoisture, counter, waterTime,
                 ret, hi, slept, lineTicks, lastDelay, wetStep, log>>

\* ------------------------------------------------------------- plantState
\* plantState line 200: initializeADC(ptr_plant), lines 113-121.
InitializeADC ==
  /\ pc = "ps_initADC"
  /\ P1OUT' = EnableSensor(P1OUT, cur)
  /\ ADC10CTL1' = ADC10CTL1 \cup plant[cur].selectADC
  /\ ADC10AE0' = ADC10AE0 \cup plant[cur].sampleADC
  /\ lastDelay' = Waited("msdelay", 500)
  /\ pc' = "ps_check"
  /\ UNCHANGED <<cur, travelTime, P2OUT, ADC10CTL0, ADC10MEM, moisture,
                 pmoisture, counter, waterTime, ret, hi, slept, lineTicks,
                 wetStep, log>>

\* plantState line 201: moisture = checkMoisture(), lines 139-146.  The
\* conversion result is whatever the sensor delivers.
PlantStateCheck ==
  /\ pc = "ps_check"
  /\ \E s \in Samples :
       /\ ADC10MEM' = s
       /\ moisture' = s
  /\ ADC10CTL0' = ADC10CTL0 \cup ENC
  /\ pc' = "ps_if"
  /\ UNCHANGED <<cur, travelTime, P1OUT, P2OUT, ADC10CTL1, ADC10AE0,
                 pmoisture, counter, waterTime, ret, hi, slept, lineTicks,
                 lastDelay, wetStep, log>>

\* plantState lines 202-207, the body of if(moisture<MOISTURE_MIN):
\* the call of preWaterPlant, delay(60), the call of waterPlant.
PlantStateDry ==
  /\ \/ pc = "ps_if" /\ Dry(moisture)
     \/ pc \in {"ps_delay60", "ps_full"}
  /\ CASE pc = "ps_if" ->
            /\ pc' = "pre_check"
            /\ log' = Append(log, Entry("preWaterPlant", "-", 0))
            /\ UNCHANGED <<ret, lastDelay>>
       [] pc = "ps_delay60" ->
            /\ lastDelay' = Waited("delay", 60)
            /\ pc' = "ps_full"
            /\ UNCHANGED <<ret, log>>
       [] pc = "ps_full" ->
            /\ ret' = "full"
            /\ pc' = "wp_open"
            /\ UNCHANGED <<lastDelay, log>>
  /\ UNCHANGED <<cur, travelTime, regs, moisture, pmoisture, counter,
                 waterTime, hi, slept, lineTicks, wetStep>>

\* plantState line 202 when the condition is false.
PlantStateWet ==
  /\ pc = "ps_if"
  /\ ~Dry(moisture)
  /\ pc' = "ps_maint"
  /\ UNCHANGED <<cur, travelTime, regs, moisture, pmoisture, counter,
                 waterTime, ret, hi, slept, lineTicks, lastDelay, wetStep, log>>

\* plantState line 208: the unconditional call of waterPlant.
PlantStateMaint ==
  /\ pc = "ps_maint"
  /\ ret' = "maint"
  /\ pc' = "wp_open"
  /\ UNCHANGED <<cur, travelTime, regs, moisture, pmoisture, counter,
                 waterTime, hi, slept, lineTicks, lastDelay, wetStep, log>>

\* deinitializeADC without the statement of line 131.
DeinitializeADC_KeepInput ==
  /\ pc = "ps_deinit"
  /\ ADC10CTL0' = ADC10CTL0 \ ENC
  /\ ADC10CTL1' = ADC10CTL1 \ plant[cur].selectADC
  /\ P1OUT' = DisableSensor(P1OUT, cur)
  /\ pc' = "ps_ret"
  /\ UNCHANGED <<cur, travelTime, P2OUT, ADC10AE0, ADC10MEM, moisture,
                 pmoisture, counter, waterTime, ret, hi, slept, lineTicks,
                 lastDelay, wetStep, log>>

\* plantState line 209: deinitializeADC(ptr_plant), lines 126-134.
DeinitializeADC ==
  /\ pc = "ps_deinit"
  /\ ADC10CTL0' = ADC10CTL0 \ ENC
  /\ ADC10CTL1' = ADC10CTL1 \ plant[cur].selectADC
  /\ ADC10AE0' = ADC10AE0 \ plant[cur].sampleADC
  /\ P1OUT' = DisableSensor(P1OUT, cur)
  /\ pc' = "ps_ret"
  /\ UNCHANGED <<cur, travelTime, P2OUT, ADC10MEM, moisture, pmoisture,
                 counter, waterTime, ret, hi, slept, lineTicks, lastDelay,
                 wetStep, log>>

\* ---------------------------------------------------------- preWaterPlant
\* preWaterPlant lines 153-154.
PreWaterCheck ==
  /\ pc = "pre_check"
  /\ \E s \in Samples :
       /\ ADC10MEM' = s
       /\ pmoisture' = s
       /\ wetStep' = IF s >= MOISTURE_MAX THEN 0 ELSE -1
  /\ ADC10CTL0' = ADC10CTL0 \cup ENC
  /\ counter' = 0
  /\ pc' = "pre_open"
  /\ UNCHANGED <<cur, travelTime, P1OUT, P2OUT, ADC10CTL1, ADC10AE0,
                 moisture, waterTime, ret, hi, slept, lineTicks, lastDelay, log>>

\* preWaterPlant lines 155-156.
PreWaterOpenValve ==
  /\ pc = "pre_open"
  /\ P2OUT' = OpenValve(P2OUT, cur)
  /\ lastDelay' = Waited("delay", 1)
  /\ pc' = "pre_test"
  /\ UNCHANGED <<cur, travelTime, P1OUT, ADC10CTL0, ADC10CTL1, ADC10AE0,
                 ADC10MEM, moisture, pmoisture, counter, waterTime, ret, hi,
                 slept, lineTicks, wetStep, log>>

\* counter++ (line 162), followed up to MaxCounter.
Incremented(c) == IF c < MaxCounter THEN c + 1 ELSE c

\* preWaterPlant lines 157-163: one pass of the while loop.
PreWaterStep ==
  /\ pc = "pre_test"
  /\ Continue(pmoisture, counter)
  /\ P2OUT' = OpenLine(P2OUT)
  /\ lastDelay' = Waited("delay", 1)
  /\ \E s \in Samples :
       /\ ADC10MEM' = s
       /\ pmoisture' = s
       /\ wetStep' = IF wetStep = -1 /\ s >= MOISTURE_MAX
                       THEN Incremented(counter) ELSE wetStep
  /\ ADC10CTL0' = ADC10CTL0 \cup ENC
  /\ counter' = Incremented(counter)
  /\ UNCHANGED <<pc, cur, travelTime, P1OUT, ADC10CTL1, ADC10AE0, moisture,
                 waterTime, ret, hi, slept, lineTicks, log>>

\* preWaterPlant line 157 when the condition is false: the loop ends.
PreWaterLoopExit ==
  /\ pc = "pre_test"
  /\ ~Continue(pmoisture, counter)
  /\ pc' = "pre_if"
  /\ UNCHANGED <<cur, travelTime, regs, moisture, pmoisture, counter,
                 waterTime, ret, hi, slept, lineTicks, lastDelay, wetStep, log>>

\* preWaterPlant lines 164-177: the test that diverts to the alarm loop,
\* and the statements after it up to the return to plantState line 205.
PreWaterFinish ==
  /\ pc \in {"pre_if", "pre_close", "pre_store"}
  /\ CASE pc = "pre_if" ->
            /\ pc' = IF AlarmTest(counter) THEN "alarm_on" ELSE "pre_close"
            /\ UNCHANGED <<P2OUT, lastDelay, travelTime>>
       [] pc = "pre_close" ->
            /\ P2OUT' = CloseLine(P2OUT)
            /\ lastDelay' = Waited("delay", 2)
            /\ pc' = "pre_store"
            /\ UNCHANGED travelTime
       [] pc = "pre_store" ->
            /\ P2OUT' = CloseValve(P2OUT, cur)
            /\ travelTime' = [travelTime EXCEPT ![cur] = counter]
            /\ pc' = "ps_delay60"
            /\ UNCHANGED lastDelay
  /\ UNCHANGED <<cur, P1OUT, ADC10CTL0, ADC10CTL1, ADC10AE0, ADC10MEM,
                 moisture, pmoisture, counter, waterTime, ret, hi, slept,
                 lineTicks, wetStep, log>>

\* preWaterPlant lines 168-169, in the while(1) loop.
AlarmOn ==
  /\ pc = "alarm_on"
  /\ P1OUT' = P1OUT \cup (BIT0 \cup BIT2 \cup BIT4)
  /\ lastDelay' = Waited("delay", 1)
  /\ pc' = "alarm_off"
  /\ UNCHANGED <<cur, travelTime, P2OUT, ADC10CTL0, ADC10CTL1, ADC10AE0,
                 ADC10MEM, moisture, pmoisture, counter, waterTime, ret, hi,
                 slept, lineTicks, wetStep, log>>

\* The alarm loop without the statement of line 170.
AlarmOff_NoClear ==
  /\ pc = "alarm_off"
  /\ lastDelay' = Waited("delay", 1)
  /\ pc' = "alarm_on"
  /\ UNCHANGED <<cur, travelTime, regs, moisture, pmoisture, counter,
                 waterTime, ret, hi, slept, lineTicks, wetStep, log>>

\* preWaterPlant lines 170-171, in the while(1) loop.
AlarmOff ==
  /\ pc = "alarm_off"
  /\ P1OUT' = P1OUT \ (BIT0 \cup BIT2 \cup BIT4)
  /\ lastDelay' = Waited("delay", 1)
  /\ pc' = "alarm_on"
  /\ UNCHANGED <<cur, travelTime, P2OUT, ADC10CTL0, ADC10CTL1, ADC10AE0,
                 ADC10MEM, moisture, pmoisture, counter, waterTime, ret, hi,
                 slept, lineTicks, wetStep, log>>

\* ------------------------------------------------------------- waterPlant
\* waterPlant lines 185-187.
WaterOpenValve ==
  /\ pc = "wp_open"
  /\ waterTime' = WaterTime(travelTime[cur])
  /\ P2OUT' = OpenValve(P2OUT, cur)
  /\ lastDelay' = Waited("delay", 1)
  /\ pc' = "wp_line"
  /\ UNCHANGED <<cur, travelTime, P1OUT, ADC10CTL0, ADC10CTL1, ADC10AE0,
                 ADC10MEM, moisture, pmoisture, counter, ret, hi, slept,
                 lineTicks, wetStep, log>>

\* waterPlant lines 188-189.
WaterOpenLine ==
  /\ pc = "wp_line"
  /\ P2OUT' = OpenLine(P2OUT)
  /\ lineTicks' = DelayTicks(waterTime)
  /\ lastDelay' = Waited("delay", waterTime)
  /\ pc' = "wp_close"
  /\ UNCHANGED <<cur, travelTime, P1OUT, ADC10CTL0, ADC10CTL1, ADC10AE0,
                 ADC10MEM, moisture, pmoisture, counter, waterTime, ret, hi,
                 slept, wetStep, log>>

\* waterPlant lines 190-191.
WaterCloseLine ==
  /\ pc = "wp_close"
  /\ P2OUT' = CloseLine(P2OUT)
  /\ lastDelay' = Waited("delay", 2)
  /\ pc' = "wp_valve"
  /\ UNCHANGED <<cur, travelTime, P1OUT, ADC10CTL0, ADC10CTL1, ADC10AE0,
                 ADC10MEM, moisture, pmoisture, counter, waterTime, ret, hi,
                 slept, lineTicks, wetStep, log>>

\* waterPlant line 192 and the return to plantState (line 208 after the
\* call of line 206, line 209 after the call of line 208).
WaterCloseValve ==
  /\ pc = "wp_valve"
  /\ P2OUT' = CloseValve(P2OUT, cur)
  /\ log' = Append(log, Entry("waterPlant", ret, lineTicks))
  /\ pc' = IF ret = "full" THEN "ps_maint" ELSE "ps_deinit"
  /\ UNCHANGED <<cur, travelTime, P1OUT, ADC10CTL0, ADC10CTL1, ADC10AE0,
                 ADC10MEM, moisture, pmoisture, counter, waterTime, ret, hi,
                 slept, lineTicks, lastDelay, wetStep>>

\* ------------------------------------------------------------------- Next
Next ==
  \/ MainCallPlantState
  \/ PlantStateReturn
  \/ HDelayHour
  \/ HDelayReturn
  \/ InitializeADC
  \/ PlantStateCheck
  \/ PlantStateDry
  \/ PlantStateWet
  \/ PlantStateMaint
  \/ DeinitializeADC
  \/ PreWaterCheck
  \/ PreWaterOpenValve
  \/ PreWaterStep
  \/ PreWaterLoopExit
  \/ PreWaterFinish
  \/ AlarmOn
  \/ AlarmOff
  \/ WaterOpenValve
  \/ WaterOpenLine
  \/ WaterCloseLine
  \/ WaterCloseValve

Spec == Init /\ [][Next]_vars

\* The thread always runs: delay(), msdelay() and checkMoisture() are woken
\* by their interrupts, so a statement that can run does run.
FairSpec == Spec /\ WF_vars(Next)

TypeOK ==
  /\ cur \in Plants
  /\ travelTime \in [Plants -> 0..MaxCounter]
  /\ P2OUT \subseteq 0..3
  /\ moisture \in Samples /\ pmoisture \in Samples
  /\ counter \in 0..MaxCounter
  /\ Len(log) <= 3

\* ------------------------------------------------------------- vocabulary
PrePcs == {"pre_check", "pre_open", "pre_test", "pre_if", "pre_close", "pre_store"}
InAlarm == pc \in {"alarm_on", "alarm_off"}

StationValves == BIT0 \cup BIT1 \cup BIT2
OpenValves == P2OUT \cap (StationValves \cup BIT3)
ValveOpen(p) == plant[p].activateSolenoid \subseteq P2OUT

\* moisture holds the initial sample of the plant being processed.
Sampled == pc \notin {"main", "ps_initADC", "ps_check", "hdelay"}
\* preWaterPlant was called for the plant being processed and has taken its
\* first sample, so counter and wetStep belong to this calibration.
Calibrated ==
  /\ Sampled
  /\ log # <<>>
  /\ log[1].op = "preWaterPlant"
  /\ pc # "pre_check"

Doses == {i \in 1..Len(log) : log[i].op = "waterPlant"}

\* ----------------------------------------------------------------- claims
\* C1: whenever a plant's initial sample is below MOISTURE_MIN, its
\* processing goes on to have called preWaterPlant first, then completed
\* the full dose (line 206), then exactly one more dose (line 208).
C1_DryCalibratesThenDoses ==
  (pc = "ps_if" /\ moisture < MOISTURE_MIN)
    ~> (/\ Len(log) = 3
        /\ log[1].op = "preWaterPlant"
        /\ log[2].op = "waterPlant" /\ log[2].call = "full"
        /\ log[3].op = "waterPlant" /\ log[3].call = "maint")

\* C2: while a plant whose initial sample is >= MOISTURE_MIN is processed,
\* preWaterPlant is never called, and when plantState returns exactly one
\* waterPlant call has been made.
C2_WetNoCalibrationOneDose ==
  (Sampled /\ moisture >= MOISTURE_MIN) =>
     /\ pc \notin PrePcs
     /\ ~InAlarm
     /\ \A i \in 1..Len(log) : log[i].op # "preWaterPlant"
     /\ Cardinality(Doses) <= 1
     /\ (pc = "ps_ret" => Cardinality(Doses) = 1)

C2_Witness ==
  /\ pc = "ps_ret"
  /\ moisture >= MOISTURE_MIN
  /\ Len(log) = 1
  /\ log[1].op = "waterPlant"

\* C3: in preWaterPlant (the alarm loop included) counter is never larger
\* than MAX_TRAVEL.
C3_CounterBounded ==
  (pc \in PrePcs \/ InAlarm) => counter <= MAX_TRAVEL

\* C4 as stated: at most one of the four valves (shared line, three
\* stations) is open in every reachable state.
C4_AtMostOneValve == Cardinality(OpenValves) <= 1

\* C4 amended: at most two of the four valves are open, and when two are
\* open one of them is the shared-line valve (so never two station valves).
C4_AtMostLineAndOneStation ==
  /\ Cardinality(OpenValves) <= 2
  /\ (Cardinality(OpenValves) = 2 => BIT3 \subseteq P2OUT)

C4_Witness ==
  /\ pc = "wp_close"
  /\ Cardinality(OpenValves) = 2

\* C5: a station valve is open only for the plant being processed, and no
\* station valve is open when main moves from one plant to the next or
\* sleeps; hence no two station valves are ever open together.
C5_StationValvesExclusive ==
  /\ \A p \in Plants : ValveOpen(p) => p = cur
  /\ (pc \in {"ps_ret", "main", "hdelay", "ps_initADC"} => P2OUT \cap StationValves = {})

\* Plant 1's valve open in a later cycle, after plant 3 and the sleep.
C5_Witness ==
  /\ cur = 1
  /\ slept = 48 * 3600
  /\ pc = "wp_close"
  /\ ValveOpen(1)

\* C6: when calibration first reads a sample >= MOISTURE_MAX at step k with
\* 1 <= k < MAX_TRAVEL, it takes no further step and raises no alarm, stores
\* travelTime = k, the full dose lasts k + SOAK_TIME and the maintenance
\* dose lasts k.
C6_WetAtStepK ==
  (Calibrated /\ wetStep \in 1..(MAX_TRAVEL - 1)) =>
     /\ counter = wetStep
     /\ ~InAlarm
     /\ (pc \notin PrePcs => travelTime[cur] = wetStep)
     /\ \A i \in Doses :
          /\ (log[i].call = "full" => log[i].ticks = wetStep + SOAK_TIME)
          /\ (log[i].call = "maint" => log[i].ticks = wetStep)

\* C7: when a dry plant's calibration has taken MAX_TRAVEL steps and no
\* sample has reached MOISTURE_MAX, the alarm loop is entered eventually,
\* and in the alarm loop no dose has been given to that plant.
C7_BoundExhaustedAlarms ==
  /\ (Calibrated /\ pc = "pre_test" /\ counter = MAX_TRAVEL /\ wetStep = -1)
       ~> InAlarm
  /\ [](InAlarm => Doses = {})

C10_AlarmValvesClosed == InAlarm => OpenValves = {}

\* Sensor pins of P1OUT, and the state of the ADC after deinitializeADC.
SensorPins == BIT0 \cup BIT2 \cup BIT4
SensorsOff ==
  /\ P1OUT \cap SensorPins = {}
  /\ ADC10AE0 = {}
  /\ ADC10CTL1 = ADC10DIV_7
  /\ ADC10CTL0 \cap ENC = {}

\* C11: main arrives at a plantState call only for a new plant, with every
\* valve closed and the sensors de-initialized; the plant changes only from
\* N to N+1 when plantState returns, or from 3 to 1 when hdelay has
\* finished after 48 passes of delay(3600), 48 * 3600 seconds in all.
C11_OrderAndSleep ==
  /\ [](pc = "main" => OpenValves = {} /\ SensorsOff)
  /\ [][pc' = "main" => cur' # cur]_vars
  /\ [][pc' = "ps_initADC" /\ pc # "ps_initADC" => pc = "main"]_vars
  /\ [][cur' # cur =>
         \/ pc = "ps_ret" /\ cur < 3 /\ cur' = cur + 1
         \/ /\ pc = "hdelay" /\ cur = 3 /\ cur' = 1
            /\ hi = 0 /\ slept = 48 * 3600
            /\ lastDelay = [fn |-> "delay", n |-> 3600]]_vars

\* Plant 1 about to be processed again after the sleep.
C11_Witness ==
  /\ pc = "main"
  /\ cur = 1
  /\ log # <<>>
  /\ slept = 48 * 3600

\* C12: every plant's travelTime is between 0 and MAX_TRAVEL, and a
\* calibration whose counter has passed MAX_TRAVEL is still in its loop or
\* in the alarm loop: it never gets to the statements that store counter.
C12_TravelTimeBounded ==
  /\ \A p \in Plants : 0 <= travelTime[p] /\ travelTime[p] <= MAX_TRAVEL
  /\ (Calibrated /\ counter > MAX_TRAVEL) =>
        (pc \in {"pre_test", "pre_if"} \/ InAlarm)

\* A calibration that went past MAX_TRAVEL and ended in the alarm loop.
C12_Witness ==
  /\ InAlarm
  /\ counter > MAX_TRAVEL
  /\ travelTime[cur] = 0

\* C13: once the alarm loop is entered the program stays in it and does
\* nothing but drive P1 BIT0, BIT2, BIT4: all three on, one second, all
\* three off, one second, again and again, for ever.
C13_AlarmAbsorbing ==
  /\ [][InAlarm =>
         /\ InAlarm'
         /\ UNCHANGED <<cur, travelTime, P2OUT, ADC10CTL0, ADC10CTL1,
                        ADC10AE0, ADC10MEM, moisture, pmoisture, counter,
                        waterTime, ret, hi, slept, lineTicks, wetStep, log>>
         /\ lastDelay' = [fn |-> "delay", n |-> 1]
         /\ (pc = "alarm_on" =>
               pc' = "alarm_off" /\ P1OUT' \cap SensorPins = SensorPins)
         /\ (pc = "alarm_off" =>
               pc' = "alarm_on" /\ P1OUT' \cap SensorPins = {})]_vars
  /\ (InAlarm ~> (pc = "alarm_off" /\ P1OUT \cap SensorPins = SensorPins))
  /\ (InAlarm ~> (pc = "alarm_on" /\ P1OUT \cap SensorPins = {}))

\* In the alarm loop, the three outputs off again after having been on.
C13_Witness ==
  /\ pc = "alarm_on"
  /\ P1OUT \cap SensorPins = {}
  /\ lastDelay = [fn |-> "delay", n |-> 1]

\* C14: in waterPlant the station valve is opened first, then the shared
\* line, which stays open for delay(waterTime); the line is closed first,
\* delay(2) follows, then the station valve is closed; after the return
\* both are closed and the dose is recorded with waterTime seconds.
C14_DoseProtocol ==
  /\ (pc = "wp_line" =>
        /\ OpenValves = plant[cur].activateSolenoid
        /\ lastDelay = [fn |-> "delay", n |-> 1])
  /\ (pc = "wp_close" =>
        /\ OpenValves = plant[cur].activateSolenoid \cup BIT3
        /\ lineTicks = waterTime
        /\ lastDelay = [fn |-> "delay", n |-> waterTime])
  /\ (pc = "wp_valve" =>
        /\ OpenValves = plant[cur].activateSolenoid
        /\ lastDelay = [fn |-> "delay", n |-> 2])
  /\ (pc \in {"ps_maint", "ps_deinit", "ps_ret"} => OpenValves = {})
  /\ (pc = "ps_deinit" =>
        /\ log # <<>>
        /\ log[Len(log)].op = "waterPlant"
        /\ log[Len(log)].ticks = waterTime)

\* The line closed after a dose, the station valve still open for delay(2).
C14_Witness ==
  /\ pc = "wp_valve"
  /\ waterTime > 0
  /\ lineTicks = waterTime
  /\ P2OUT = plant[cur].activateSolenoid

\* The sensor of the plant being processed is powered and its ADC channel
\* and input are enabled.
SensorOn(p) ==
  /\ plant[p].enableADC \subseteq P1OUT
  /\ plant[p].sampleADC \subseteq ADC10AE0
  /\ plant[p].selectADC \subseteq ADC10CTL1

C16_SensorsSerialized ==
  ~InAlarm =>
     /\ \A p \in Plants :
          (plant[p].enableADC \subseteq P1OUT \/ plant[p].sampleADC \subseteq ADC10AE0)
             => p = cur
     /\ ADC10CTL1 \ ADC10DIV_7 \in {{}, plant[cur].selectADC}
     /\ (pc \in {"main", "ps_initADC", "ps_ret", "hdelay"} =>
           /\ P1OUT \cap SensorPins = {}
           /\ ADC10AE0 = {}
           /\ ADC10CTL1 = ADC10DIV_7)

\* Plant 2's sensor alone powered, after plant 1 was processed.
C16_Witness ==
  /\ cur = 2
  /\ pc = "ps_check"
  /\ P1OUT \cap SensorPins = BIT2
  /\ ADC10AE0 = BIT3
  /\ ADC10CTL1 = ADC10DIV_7 \cup INCH_3

\* C17: preWaterPlant never returns: its loop ends only with
\* counter >= MAX_TRAVEL, the statements after the alarm loop and the
\* delay(60) and full dose of plantState are never reached, every
\* travelTime stays 0, and a plant found dry gets no dose at all.
C17_CalibrationNeverReturns ==
  /\ \A p \in Plants : travelTime[p] = 0
  /\ pc \notin {"pre_close", "pre_store", "ps_delay60", "ps_full"}
  /\ (pc = "pre_if" => counter >= MAX_TRAVEL)
  /\ \A i \in Doses : log[i].call = "maint"
  /\ (Sampled /\ moisture < MOISTURE_MIN =>
        /\ Doses = {}
        /\ (pc = "ps_if" \/ pc \in PrePcs \/ InAlarm))

\* The loop has ended for a dry plant: wet sample, counter at the bound,
\* alarm loop, nothing stored, no dose.
C17_Witness ==
  /\ InAlarm
  /\ moisture < MOISTURE_MIN
  /\ pmoisture >= MOISTURE_MAX
  /\ counter >= MAX_TRAVEL
  /\ travelTime[cur] = 0
  /\ Doses = {}

\* C18: whenever the shared-line valve is open, the station valves that are
\* open are exactly the valve of the plant being processed; the line is
\* only opened while that valve is open, and that valve is only closed
\* while the line is closed.
C18_LineNeverAlone ==
  /\ [](BIT3 \subseteq P2OUT =>
          P2OUT \cap StationValves = plant[cur].activateSolenoid)
  /\ [][(~(BIT3 \subseteq P2OUT) /\ BIT3 \subseteq P2OUT')
          => (ValveOpen(cur) /\ cur' = cur)]_vars
  /\ [][(ValveOpen(cur) /\ ~(plant[cur].activateSolenoid \subseteq P2OUT'))
          => ~(BIT3 \subseteq P2OUT)]_vars

\* The alarm loop, entered with the line and the plant's valve open.
C18_Witness ==
  /\ InAlarm
  /\ P2OUT = plant[cur].activateSolenoid \cup BIT3

\* C19: all four valves are closed at the delay(60) of plantState, during
\* hdelay(48) and when a plant's initial sample is taken; during hdelay(48)
\* the three sensor pins and the ADC inputs are off as well.
C19_QuietWhileWaiting ==
  /\ (pc \in {"ps_delay60", "ps_full"} => OpenValves = {})
  /\ (pc = "hdelay" =>
        /\ OpenValves = {}
        /\ P1OUT \cap SensorPins = {}
        /\ ADC10AE0 = {})
  /\ (pc \in {"ps_check", "ps_if"} => OpenValves = {})

\* Half way through the sleep after a full cycle.
C19_Witness ==
  /\ pc = "hdelay"
  /\ hi = 24
  /\ slept = 24 * 3600
  /\ P2OUT = {}
  /\ P1OUT = {}

\* C20: every execution enters the alarm loop or reaches the 48-hour sleep
\* again and again (so every plant is processed again and again), and none
\* keeps a valve open for ever outside the alarm loop.
C20_AlarmOrProgress ==
  /\ []<>(InAlarm \/ pc = "hdelay")
  /\ []<>(InAlarm \/ OpenValves = {})

====
